---- MODULE Spec2Model ----
(***************************************************************************)
(* A model of the task classification and aggregation engine of            *)
(* backlog-fire-tasks (src/src/api.ts).                                    *)
(*                                                                         *)
(*   SpecUrgency    calculateOverdueStatus, evaluated at one instant in    *)
(*                  two processes that differ in their local timezone      *)
(*   SpecClassifier isCompletedStatus over status names                    *)
(*   SpecResolver   getActiveStatusIds with its per-project fetches        *)
(***************************************************************************)
EXTENDS Integers, Sequences, FiniteSets, TLC

VARIABLES
    now,        \* the clock: hours since 00:00 UTC of day 0
    tz,         \* tz[p]: the local timezone of process p
    dueDate,    \* the argument of the last call of calculateOverdueStatus
    result,     \* result[p]: what the call returned in process p
    clockRead,  \* clockRead[p]: whether the call executed new Date()
    ustate,     \* "idle" | "returned"
    statusName, \* the argument of the last call of isCompletedStatus
    completed,  \* what that call returned
    cstate,     \* "idle" | "classified"
    env,        \* process.env: the environment variables the code reads
    projectIds, \* the argument of the running call of getActiveStatusIds
    fetches,    \* fetches[i]: the state of statusPromises[i]
    requests,   \* the project ids of the status requests issued, in order
    settleOrder,\* the indices of the status fetches in the order they settled
    rresult,    \* what getActiveStatusIds returned
    rpc,        \* "idle" | "awaiting" | "returned"
    entry,      \* the exported function that was called
    ppc,        \* the position of that call: "idle", an await, or "returned"
    plog,       \* the HTTP requests issued other than status requests, in order
    projectMap, \* the project list fetchBacklogTasks fetched, if it has
    params,     \* the filters appended to the URL of the issue-list request
    issues,     \* the issue list fetchIssues fetched, if it has
    presult,    \* what the call returned
    targs,      \* the arguments of the last call of transformIssueToTask
    ttask,      \* what that call returned
    tstate,     \* "idle" | "returned"
    viewMode,   \* useTasks: the argument of the hook, "assignee" | "creator"
    tasks,      \* useTasks: the state tasks
    loading,    \* useTasks: the state loading
    error,      \* useTasks: the state error, null or a message
    inflight,   \* useTasks: the /api/tasks requests that have not settled
    issued,     \* useTasks: the number of /api/tasks requests issued
    settled,    \* useTasks: the response to the request issued last, if it settled
    taskList,   \* useTaskFilter: the argument tasks
    filterMode, \* useTaskFilter: the argument viewMode
    statusFilter,   \* useTaskFilter: the state statusFilter
    assigneeFilter, \* useTaskFilter: the state assigneeFilter
    projectFilter,  \* useTaskFilter: the state projectFilter
    view        \* useTaskFilter: the values of the last render, and its task cards

uvars == <<now, tz, dueDate, result, clockRead, ustate>>

cvars == <<statusName, completed, cstate>>

rvars == <<env, projectIds, fetches, requests, settleOrder, rresult, rpc>>

pvars == <<entry, ppc, plog, projectMap, params, issues, presult>>

tvars == <<targs, ttask, tstate>>

hvars == <<viewMode, tasks, loading, error, inflight, issued, settled>>

fvars == <<taskList, filterMode, statusFilter, assigneeFilter, projectFilter, view>>

vars == <<uvars, cvars, rvars, pvars, tvars, hvars, fvars>>

-----------------------------------------------------------------------------
(* Time.  Instants are whole hours; a calendar date is a day number, and   *)
(* the string YYYY-MM-DD of day d is the record DateStr(d).                *)

\* The days of the clock's window: now ranges over the hours of days 0..MaxDay-1.
MaxDay == 5

\* How many days before and after the window a due date may lie.
DueSpan == 2

HoursPerDay == 24

Instants == 0 .. (MaxDay * HoursPerDay - 1)

\* A timezone: the UTC offset (hours) before and after one transition instant.
\* The offsets are those of the IANA zones named.
Zones ==
    { [name |-> "UTC",                before |-> 0,   after |-> 0,   at |-> 0],
      [name |-> "Asia/Tokyo",         before |-> 9,   after |-> 9,   at |-> 0],
      [name |-> "Pacific/Kiritimati", before |-> 14,  after |-> 14,  at |-> 0],
      [name |-> "Etc/GMT+12",         before |-> -12, after |-> -12, at |-> 0],
      \* spring forward: 02:00 EST -> 03:00 EDT on day 2 (07:00 UTC), a 23-hour day
      [name |-> "America/New_York",   before |-> -5,  after |-> -4,  at |-> 2 * 24 + 7],
      \* fall back: 02:00 BST -> 01:00 GMT on day 2 (01:00 UTC), a 25-hour day
      [name |-> "Europe/London",      before |-> 1,   after |-> 0,   at |-> 2 * 24 + 1] }

Procs == {1, 2}

\* A JavaScript number: an integer or NaN.
Num(n) == [nan |-> FALSE, val |-> n]
NaN == [nan |-> TRUE, val |-> 0]

\* The text of a date: YYYY-MM-DD of a day, or text that is no date.
DateStr(d) == [txt |-> "YYYY-MM-DD", day |-> d]
NotADate == [txt |-> "not-a-date", day |-> 0]
EmptyStr == [txt |-> "", day |-> 0]

DueDays == (0 - DueSpan) .. (MaxDay + DueSpan)

DateParts == {DateStr(d) : d \in DueDays} \cup {NotADate, EmptyStr}

\* An optional due-date string: undefined, or a date part followed by an
\* optional time suffix ("" or "T00:00:00Z").
Undefined == [defined |-> FALSE, date |-> EmptyStr, suffix |-> ""]
DueDates ==
    {Undefined} \cup
    [defined : {TRUE}, date : DateParts, suffix : {"", "T00:00:00Z"}]

\* Mutant of Falsy: the guard tests for the empty string only (dueDate === "").
Falsy_OnlyEmptyString(d) == d.defined /\ d.date = EmptyStr /\ d.suffix = ""

\* !dueDate: undefined and the empty string are falsy.
Falsy(d) == ~d.defined \/ (d.date = EmptyStr /\ d.suffix = "")

\* dueDate.split("T")[0]
SplitT0(d) == d.date

\* The UTC offset of zone z in force at instant t.
OffsetAt(z, t) == IF t < z.at THEN z.before ELSE z.after

\* Local wall-clock hours of instant t in zone z.
LocalTime(z, t) == t + OffsetAt(z, t)

\* UTC(t_local): a repeated or skipped local time is read with the offset
\* before the transition.
UTCOfLocal(z, l) ==
    IF l - z.before < z.at THEN l - z.before
    ELSE IF l - z.after >= z.at THEN l - z.after
    ELSE l - z.before

\* date.toISOString().split("T")[0]: the UTC calendar date.
ToISODate(t) == DateStr(t \div HoursPerDay)

\* tomorrow.setDate(today.getDate() + 1): the same local wall-clock time one
\* local calendar day later.
SetDatePlusOne(z, t) == UTCOfLocal(z, LocalTime(z, t) + HoursPerDay)

\* new Date(s + "T00:00:00").getTime(): local midnight of the date, NaN for
\* text that is no date.
ParseLocalMidnight(z, s) ==
    IF s.txt = "YYYY-MM-DD" THEN Num(UTCOfLocal(z, s.day * HoursPerDay)) ELSE NaN

\* todayTime - dueTime
Minus(a, b) == IF a.nan \/ b.nan THEN NaN ELSE Num(a.val - b.val)

\* Math.floor(diffTime / (1000 * 60 * 60 * 24))
FloorDays(a) == IF a.nan THEN NaN ELSE Num(a.val \div HoursPerDay)

\* overdueDays > 0
GreaterThanZero(a) == ~a.nan /\ a.val > 0

\* Mutant of MaxZero: the day count is returned without the clamp at 0.
MaxZero_NoClamp(a) == a

\* Math.max(0, overdueDays)
MaxZero(a) == IF a.nan THEN NaN ELSE Num(IF a.val > 0 THEN a.val ELSE 0)

NotUrgent == [isOverdue |-> FALSE, overdueDays |-> Num(0), isDueTomorrow |-> FALSE]

\* calculateOverdueStatus(dueDate) evaluated at instant t in a process whose
\* local timezone is z.
calculateOverdueStatus(d, t, z) ==
    IF Falsy(d) THEN NotUrgent
    ELSE
      LET todayStr    == ToISODate(t)
          tomorrowStr == ToISODate(SetDatePlusOne(z, t))
          dueDateStr  == SplitT0(d)
      IN  IF dueDateStr = todayStr THEN NotUrgent
          ELSE IF dueDateStr = tomorrowStr THEN
              [isOverdue |-> FALSE, overdueDays |-> Num(0), isDueTomorrow |-> TRUE]
          ELSE
            LET dueTime     == ParseLocalMidnight(z, dueDateStr)
                todayTime   == ParseLocalMidnight(z, todayStr)
                diffTime    == Minus(todayTime, dueTime)
                overdueDays == FloorDays(diffTime)
            IN  [isOverdue     |-> GreaterThanZero(overdueDays),
                 overdueDays   |-> MaxZero(overdueDays),
                 isDueTomorrow |-> FALSE]

\* Whether the call reaches new Date() (line 103).
ReadsClock(d) == ~Falsy(d)

-----------------------------------------------------------------------------
(* Status Classifier.  A string is a sequence of characters; a character  *)
(* outside ASCII is written as its code point, "U+5B8C".                  *)

\* The longest status name built from the characters of NameChars.
MaxNameLen == 4

UpperLetters ==
    <<"A", "C", "D", "E", "F", "G", "H", "I", "L", "M", "N", "O", "P", "R", "S", "T", "U", "V", "W">>
LowerLetters ==
    <<"a", "c", "d", "e", "f", "g", "h", "i", "l", "m", "n", "o", "p", "r", "s", "t", "u", "v", "w">>

\* The characters without case: digits aside, those of the names below.
OtherChars ==
    {" ", "-", "U+5B8C", "U+4E86", "U+6210", "U+51E6", "U+7406", "U+4E2D",
     "U+672A", "U+5BFE", "U+5FDC", "U+6E08", "U+307F"}

Range(f) == {f[i] : i \in DOMAIN f}

Chars == Range(UpperLetters) \cup Range(LowerLetters) \cup OtherChars

\* One character of String.prototype.toLowerCase: an upper-case letter maps
\* to its lower-case letter, every other character (lower-case letters, CJK,
\* space, hyphen) to itself.
LowerTable ==
    [ch \in Chars |->
        IF \E i \in 1..Len(UpperLetters) : UpperLetters[i] = ch
        THEN LowerLetters[CHOOSE i \in 1..Len(UpperLetters) : UpperLetters[i] = ch]
        ELSE ch]

\* One character of String.prototype.toUpperCase.
UpperTable ==
    [ch \in Chars |->
        IF \E i \in 1..Len(LowerLetters) : LowerLetters[i] = ch
        THEN UpperLetters[CHOOSE i \in 1..Len(LowerLetters) : LowerLetters[i] = ch]
        ELSE ch]

LowerChar(ch) == LowerTable[ch]

UpperChar(ch) == UpperTable[ch]

\* Mutant of toLowerCase: the name is matched as written.
toLowerCase_Identity(s) == s

\* s.toLowerCase()
toLowerCase(s) == [i \in 1..Len(s) |-> LowerChar(s[i])]

\* Whether pattern p occurs in s at position i.
MatchesAt(s, p, i) ==
    /\ i + Len(p) - 1 <= Len(s)
    /\ SubSeq(s, i, i + Len(p) - 1) = p

\* s.includes(p): the search from the first position on.
RECURSIVE IncludesFrom(_, _, _)
IncludesFrom(s, p, i) ==
    IF i + Len(p) - 1 > Len(s) THEN FALSE
    ELSE IF MatchesAt(s, p, i) THEN TRUE
    ELSE IncludesFrom(s, p, i + 1)

includes(s, p) == IncludesFrom(s, p, 1)

completedPatterns ==
    << <<"U+5B8C", "U+4E86">>,
       <<"U+5B8C", "U+6210">>,
       <<"d", "o", "n", "e">>,
       <<"c", "l", "o", "s", "e", "d">>,
       <<"c", "l", "o", "s", "e">>,
       <<"c", "o", "m", "p", "l", "e", "t", "e">>,
       <<"f", "i", "n", "i", "s", "h", "e", "d">> >>

\* completedPatterns.some(pattern => lowerStatusName.includes(pattern.toLowerCase()))
RECURSIVE SomePattern(_, _)
SomePattern(lowerStatusName, k) ==
    IF k > Len(completedPatterns) THEN FALSE
    ELSE IF includes(lowerStatusName, toLowerCase(completedPatterns[k])) THEN TRUE
    ELSE SomePattern(lowerStatusName, k + 1)

isCompletedStatus(name) ==
    LET lowerStatusName == toLowerCase(name)
    IN  SomePattern(lowerStatusName, 1)

-----------------------------------------------------------------------------
(* Active-Status Resolver. *)

\* The longest list of project ids passed to getActiveStatusIds.
MaxProjects == 2

\* The longest status list a project returns, its whole vocabulary aside.
MaxStatuses == 1

\* neverthrow's ok(value) and err(new Error(message)).
Ok(v) == [ok |-> TRUE, value |-> v, error |-> ""]
Err(m) == [ok |-> FALSE, value |-> <<>>, error |-> m]

ProjectIdSet == {1, 2}

ProjectIdLists == UNION {[1..n -> ProjectIdSet] : n \in 0..MaxProjects}

\* The statuses of the remote projects: status id 1 is open everywhere, status
\* id 2 is "Done" in one project and "Open" in another.
Statuses ==
    { [id |-> 1, name |-> <<"O", "p", "e", "n">>],
      [id |-> 2, name |-> <<"D", "o", "n", "e">>],
      [id |-> 2, name |-> <<"O", "p", "e", "n">>] }

\* The four statuses every project starts with, under their Japanese and
\* their English names.
DefaultStatuses ==
    << [id |-> 1, name |-> <<"U+672A", "U+5BFE", "U+5FDC">>],
       [id |-> 2, name |-> <<"U+51E6", "U+7406", "U+4E2D">>],
       [id |-> 3, name |-> <<"U+51E6", "U+7406", "U+6E08", "U+307F">>],
       [id |-> 4, name |-> <<"U+5B8C", "U+4E86">>] >>

EnglishStatuses ==
    << [id |-> 1, name |-> <<"O", "p", "e", "n">>],
       [id |-> 2, name |-> <<"I", "n", " ", "P", "r", "o", "g", "r", "e", "s", "s">>],
       [id |-> 3, name |-> <<"R", "e", "s", "o", "l", "v", "e", "d">>],
       [id |-> 4, name |-> <<"C", "l", "o", "s", "e", "d">>] >>

StatusLists ==
    UNION {[1..n -> Statuses] : n \in 0..MaxStatuses}
        \cup {DefaultStatuses, EnglishStatuses}

\* What the remote answers to GET /api/v2/projects/:id/statuses: a 2xx response
\* with a status list, a response that is not ok, or no response (fetch
\* rejects, with an Error or with another value).
Responses ==
    {[kind |-> "ok", body |-> l] : l \in StatusLists} \cup
    {[kind |-> k, body |-> <<>>] : k \in {"http", "throw", "throwNonError"}}

NoResponse == [kind |-> "none", body |-> <<>>]

\* The message of line 28, its Japanese characters written as code points.
ConfigErrorMessage ==
    "U+74B0U+5883U+5909U+6570 BACKLOG_SPACE_URL U+3068 BACKLOG_API_KEY U+304CU+5FC5U+8981U+3067U+3059"

\* An environment variable: unset (undefined), or set to a text.
Unset == [set |-> FALSE, text |-> ""]
Text(s) == [set |-> TRUE, text |-> s]

\* An environment variable that holds a comma-separated list is written as the
\* sequence of its fields: the empty text has the one field "".
UnsetList == [set |-> FALSE, fields |-> <<>>]
Fields(f) == [set |-> TRUE, fields |-> f]

UrlSettings == {Unset, Text(""), Text("https://example.backlog.jp")}

ApiKeySettings == {Unset, Text(""), Text("api-key")}

\* PROJECT_KEYS: unset, empty, keys of remote projects, keys of no project.
ProjectKeySettings ==
    { UnsetList, Fields(<<"">>), Fields(<<"TEST1">>), Fields(<<"TEST1", "TEST2">>),
      Fields(<<"NOPE">>), Fields(<<"TEST1", "NOPE">>) }

\* MEMBER_KEYS: unset, empty, user keys of remote users, a key of no user.
MemberKeySettings ==
    { UnsetList, Fields(<<"">>), Fields(<<"user1">>), Fields(<<"user2", "user1">>),
      Fields(<<"ghost">>) }

Envs ==
    [ BACKLOG_SPACE_URL : UrlSettings, BACKLOG_API_KEY : ApiKeySettings,
      PROJECT_KEYS : ProjectKeySettings, MEMBER_KEYS : MemberKeySettings ]

\* The environment of the tests: the space and the API key, no scoping.
UnscopedEnv ==
    [ BACKLOG_SPACE_URL |-> Text("https://example.backlog.jp"),
      BACKLOG_API_KEY |-> Text("api-key"),
      PROJECT_KEYS |-> UnsetList, MEMBER_KEYS |-> UnsetList ]

\* Mutant of Not: only an unset variable counts as missing.
Not_OnlyUnset(v) == ~v.set

\* !v of a string or undefined: undefined and "" are falsy.
Not(v) == ~v.set \/ v.text = ""

\* process.env.X?.split(",") || []: an array, also an empty one, is truthy.
SplitOrEmpty(v) == IF v.set THEN v.fields ELSE <<>>

\* getBacklogConfig()
getBacklogConfig ==
    IF Not(env.BACKLOG_SPACE_URL) \/ Not(env.BACKLOG_API_KEY)
    THEN Err(ConfigErrorMessage)
    ELSE Ok([ spaceUrl |-> env.BACKLOG_SPACE_URL.text,
              apiKey |-> env.BACKLOG_API_KEY.text,
              projectKeys |-> SplitOrEmpty(env.PROJECT_KEYS),
              memberKeys |-> SplitOrEmpty(env.MEMBER_KEYS) ])

\* fetchProjectStatuses after its request settled with resp.
fetchProjectStatuses(resp) ==
    CASE resp.kind = "ok" -> Ok(resp.body)
      [] resp.kind = "http" -> Err("U+30D7U+30EDU+30B8U+30A7U+30AFU+30C8U+72B6U+614BU+53D6U+5F97U+306BU+5931U+6557: 500 Internal Server Error")
      [] resp.kind = "throw" -> Err("fetch failed")
      [] OTHER -> Err("U+30D7U+30EDU+30B8U+30A7U+30AFU+30C8U+72B6U+614BU+53D6U+5F97U+4E2DU+306BU+4E88U+671FU+3057U+306AU+3044U+30A8U+30E9U+30FCU+304CU+767AU+751FU+3057U+307EU+3057U+305F")

\* The callback of projectIds.map: a failed fetch becomes ok([]).
StatusPromise(r) == IF ~r.ok THEN Ok(<<>>) ELSE r

\* Mutant of SetAdd: an array push, which keeps duplicates.
SetAdd_Push(acc, id) == Append(acc, id)

\* activeStatusIds.add(id): a Set keeps insertion order and no duplicates.
SetAdd(acc, id) == IF id \in Range(acc) THEN acc ELSE Append(acc, id)

\* result.value.forEach(status => ...)
RECURSIVE CollectStatuses(_, _, _)
CollectStatuses(statuses, k, acc) ==
    IF k > Len(statuses) THEN acc
    ELSE CollectStatuses(statuses, k + 1,
            IF ~isCompletedStatus(statuses[k].name)
            THEN SetAdd(acc, statuses[k].id)
            ELSE acc)

\* allProjectStatusResults.forEach(result => ...)
RECURSIVE CollectResults(_, _, _)
CollectResults(results, i, acc) ==
    IF i > Len(results) THEN acc
    ELSE CollectResults(results, i + 1,
            IF results[i].ok THEN CollectStatuses(results[i].value, 1, acc) ELSE acc)

\* Mutant of ActiveStatusIds: finding no active status is reported as a failure.
ActiveStatusIds_FailOnEmpty(results) ==
    IF CollectResults(results, 1, <<>>) = <<>>
    THEN Err("no active status")
    ELSE Ok(CollectResults(results, 1, <<>>))

\* The part of getActiveStatusIds after Promise.all.
ActiveStatusIds(results) == Ok(CollectResults(results, 1, <<>>))

Pending == [state |-> "pending", resp |-> NoResponse, result |-> Ok(<<>>)]

Settled(resp, r) == [state |-> "settled", resp |-> resp, result |-> r]

\* statusPromises[i] right after projectIds.map: the request is in flight, or,
\* without configuration, fetchProjectStatuses has returned without a request.
IssueFetch(id) ==
    IF getBacklogConfig.ok THEN Pending
    ELSE Settled(NoResponse, StatusPromise(Err(getBacklogConfig.error)))

\* A callback that has not been started.
NotStarted == [state |-> "notStarted", resp |-> NoResponse, result |-> Ok(<<>>)]

\* Mutant of MapStatusPromises: a sequential loop, which starts the first
\* callback only and starts the next one after the previous has settled.
MapStatusPromises_Sequential(ids) ==
    [i \in 1..Len(ids) |-> IF i = 1 THEN IssueFetch(ids[i]) ELSE NotStarted]

\* projectIds.map(async (id) => ...): every callback is started, in the order
\* of the ids, and runs up to its await before map returns.
MapStatusPromises(ids) == [i \in 1..Len(ids) |-> IssueFetch(ids[i])]

\* The ids of the requests in flight after the callbacks fs were started.
RECURSIVE RequestsOf(_, _, _)
RequestsOf(ids, fs, i) ==
    IF i > Len(ids) THEN <<>>
    ELSE (IF fs[i].state = "pending" THEN <<ids[i]>> ELSE <<>>) \o RequestsOf(ids, fs, i + 1)


-----------------------------------------------------------------------------
(* Task Transformer and Aggregation Pipeline. *)

\* An optional value: undefined, or a value.
Absent == [defined |-> FALSE]
Some(v) == [defined |-> TRUE, value |-> v]

\* o[f] of a JavaScript object: undefined when the object has no property f.
Get(o, f) == IF f \in DOMAIN o THEN o[f] ELSE Absent

\* The projects of the remote space.
TEST1 == [id |-> 1, projectKey |-> "TEST1", name |-> "Test project 1"]
TEST2 == [id |-> 2, projectKey |-> "TEST2", name |-> "Test project 2"]

\* The project lists GET /api/v2/projects answers with.
ProjectLists == {<<>>, <<TEST1>>, <<TEST2>>, <<TEST1, TEST2>>, <<TEST2, TEST1>>}

\* The users of the remote space.
User1 == [id |-> 201, userId |-> "user1", name |-> "U+7530U+4E2DU+592AU+90CE"]
User2 == [id |-> 202, userId |-> "user2", name |-> "U+4F50U+85E4U+82B1U+5B50"]

\* The user lists GET /api/v2/users answers with.
UserLists == {<<>>, <<User1>>, <<User1, User2>>}

\* The issues of the remote space: a parent in project 1, its child in project
\* 2 without assignee and due date, and an issue of a project that is not
\* listed, whose parent is not in any list.
Issue101 ==
    [ id |-> 101, projectId |-> 1, issueKey |-> "TEST1-101",
      issueType |-> [id |-> 1, name |-> "U+30BFU+30B9U+30AF"],
      summary |-> "parent task",
      status |-> [id |-> 2, name |-> "U+51E6U+7406U+4E2D"],
      assignee |-> Some([id |-> 201, name |-> "U+7530U+4E2DU+592AU+90CE"]),
      startDate |-> Some(DateStr(0)), dueDate |-> [defined |-> TRUE, date |-> DateStr(1), suffix |-> ""],
      updated |-> 9, parentIssueId |-> Absent ]

Issue102 ==
    [ id |-> 102, projectId |-> 2, issueKey |-> "TEST2-102",
      issueType |-> [id |-> 2, name |-> "U+30D0U+30B0"],
      summary |-> "child task",
      status |-> [id |-> 1, name |-> "U+672AU+5BFEU+5FDC"],
      assignee |-> Absent,
      startDate |-> Absent, dueDate |-> Undefined,
      updated |-> 34, parentIssueId |-> Some(101) ]

Issue999 ==
    [ id |-> 999, projectId |-> 999, issueKey |-> "OTHER-999",
      issueType |-> [id |-> 1, name |-> "U+30BFU+30B9U+30AF"],
      summary |-> "task of an unlisted project",
      status |-> [id |-> 2, name |-> "U+51E6U+7406U+4E2D"],
      assignee |-> Some([id |-> 202, name |-> "U+4F50U+85E4U+82B1U+5B50"]),
      startDate |-> Absent, dueDate |-> [defined |-> TRUE, date |-> DateStr(3), suffix |-> ""],
      updated |-> 50, parentIssueId |-> Some(555) ]

RemoteIssues == {Issue101, Issue102, Issue999}

\* The issue lists GET /api/v2/issues answers with.
IssueLists ==
    { <<>>, <<Issue101>>, <<Issue102>>, <<Issue101, Issue102>>, <<Issue102, Issue101>>,
      <<Issue999>>, <<Issue102, Issue999, Issue101>> }

\* What the remote answers to a list request: a 2xx response with a list, a
\* response that is not ok, or no response (fetch rejects).
ListResponses(lists) ==
    {[kind |-> "ok", body |-> l] : l \in lists} \cup
    {[kind |-> k, body |-> <<>>] : k \in {"http", "throw", "throwNonError"}}

\* fetchProjects after its request settled with resp.
fetchProjects(resp) ==
    CASE resp.kind = "ok" -> Ok(resp.body)
      [] resp.kind = "http" -> Err("U+30D7U+30EDU+30B8U+30A7U+30AFU+30C8U+53D6U+5F97U+306BU+5931U+6557: 500 Internal Server Error")
      [] resp.kind = "throw" -> Err("fetch failed")
      [] OTHER -> Err("U+30D7U+30EDU+30B8U+30A7U+30AFU+30C8U+53D6U+5F97U+4E2DU+306BU+4E88U+671FU+3057U+306AU+3044U+30A8U+30E9U+30FCU+304CU+767AU+751FU+3057U+307EU+3057U+305F")

\* fetchUsers after its request settled with resp.
fetchUsers(resp) ==
    CASE resp.kind = "ok" -> Ok(resp.body)
      [] resp.kind = "http" -> Err("U+30E6U+30FCU+30B6U+30FCU+4E00U+89A7U+53D6U+5F97U+306BU+5931U+6557: 500 Internal Server Error")
      [] resp.kind = "throw" -> Err("fetch failed")
      [] OTHER -> Err("U+30E6U+30FCU+30B6U+30FCU+4E00U+89A7U+53D6U+5F97U+4E2DU+306BU+4E88U+671FU+3057U+306AU+3044U+30A8U+30E9U+30FCU+304CU+767AU+751FU+3057U+307EU+3057U+305F")

\* Mutant of fetchIssues: a failed request counts as an empty issue list.
fetchIssues_EmptyOnFailure(resp) == Ok(resp.body)

\* The end of fetchIssues, after the issue-list request settled with resp.
fetchIssues(resp) ==
    CASE resp.kind = "ok" -> Ok(resp.body)
      [] resp.kind = "http" -> Err("U+8AB2U+984CU+4E00U+89A7U+53D6U+5F97U+306BU+5931U+6557: 500 Internal Server Error")
      [] resp.kind = "throw" -> Err("fetch failed")
      [] OTHER -> Err("U+8AB2U+984CU+4E00U+89A7U+53D6U+5F97U+4E2DU+306BU+4E88U+671FU+3057U+306AU+3044U+30A8U+30E9U+30FCU+304CU+767AU+751FU+3057U+307EU+3057U+305F")

\* keys.join(", ")
RECURSIVE Join(_)
Join(keys) ==
    IF Len(keys) = 0 THEN ""
    ELSE IF Len(keys) = 1 THEN keys[1]
    ELSE keys[1] \o ", " \o Join(Tail(keys))

\* The failure of fetchIssues when fetchProjects failed with message m.
ProjectInfoError(m) ==
    Err("U+30D7U+30EDU+30B8U+30A7U+30AFU+30C8U+60C5U+5831U+306EU+53D6U+5F97U+306BU+5931U+6557: " \o m)

\* The failure of fetchIssues when no fetched project has a configured key.
ScopingError(keys) ==
    Err("U+6307U+5B9AU+3055U+308CU+305FU+30D7U+30EDU+30B8U+30A7U+30AFU+30C8U+304CU+898BU+3064U+304BU+308AU+307EU+305BU+3093: " \o Join(keys))

\* Mutant of FilterProjects: no project is filtered out.
FilterProjects_All(projects, keys) == projects

\* projects.filter((p) => config.projectKeys.includes(p.projectKey))
FilterProjects(projects, keys) ==
    SelectSeq(projects, LAMBDA p : p.projectKey \in Range(keys))

\* users.filter((u) => config.memberKeys.includes(u.userId))
FilterUsers(users, keys) ==
    SelectSeq(users, LAMBDA u : u.userId \in Range(keys))

\* list.map((x) => x.id)
Ids(list) == [i \in 1..Len(list) |-> list[i].id]

\* ids.forEach((id) => params.append(name, id.toString())): the values of one
\* filter of the query.
ToStrings(ids) == [i \in 1..Len(ids) |-> ToString(ids[i])]

\* Mutant of PassError: the failure is wrapped in a message of the caller.
PassError_Wrapped(r) == ProjectInfoError(r.error)

\* return err(result.error): the failure of a callee, returned as it is.
PassError(r) == Err(r.error)

\* An HTTP request: its endpoint and the filters of its query.
Req(endpoint, query) == [endpoint |-> endpoint, query |-> query]

\* formatDate(isoDate): the local day and hour of the instant, which the code
\* prints as YYYY/MM/DD HH:mm.
formatDate(isoDate, z) ==
    [ txt |-> "YYYY/MM/DD HH:00",
      day |-> LocalTime(z, isoDate) \div HoursPerDay,
      hour |-> LocalTime(z, isoDate) % HoursPerDay ]

\* Mutant of AssigneeName: an issue without assignee gets a placeholder name.
AssigneeName_Placeholder(issue) ==
    IF issue.assignee.defined THEN Some(issue.assignee.value.name) ELSE Some("unassigned")

\* issue.assignee?.name
AssigneeName(issue) ==
    IF issue.assignee.defined THEN Some(issue.assignee.value.name) ELSE Absent

\* transformIssueToTask(issue, projectKey) at instant t in timezone z.  The
\* function has two parameters: a third argument is ignored.
transformIssueToTask(issue, projectKey, t, z) ==
    [ id |-> issue.id,
      projectKey |-> projectKey,
      issueType |-> issue.issueType.name,
      summary |-> issue.summary,
      status |-> issue.status.name,
      assigneeName |-> AssigneeName(issue),
      startDate |-> issue.startDate,
      dueDate |-> issue.dueDate,
      updated |-> formatDate(issue.updated, z),
      isOverdue |-> calculateOverdueStatus(issue.dueDate, t, z).isOverdue,
      overdueDays |-> calculateOverdueStatus(issue.dueDate, t, z).overdueDays,
      isDueTomorrow |-> calculateOverdueStatus(issue.dueDate, t, z).isDueTomorrow ]

\* projectMap.get(id) after projects.forEach(p => projectMap.set(p.id,
\* p.projectKey)): the key of the last project with that id, or undefined.
RECURSIVE MapGet(_, _, _)
MapGet(projects, id, i) ==
    IF i = 0 THEN Absent
    ELSE IF projects[i].id = id THEN Some(projects[i].projectKey)
    ELSE MapGet(projects, id, i - 1)

\* The fallback key of an issue whose project is not in the map.
FallbackKey(id) == "PROJECT_" \o ToString(id)

\* Mutant of ProjectKeyOf: the fallback key for every issue.
ProjectKeyOf_AlwaysFallback(projects, id) == FallbackKey(id)

\* projectMap.get(issue.projectId) || `PROJECT_${issue.projectId}`: undefined
\* and "" are falsy.
ProjectKeyOf(projects, id) ==
    IF MapGet(projects, id, Len(projects)).defined /\ MapGet(projects, id, Len(projects)).value # ""
    THEN MapGet(projects, id, Len(projects)).value
    ELSE FallbackKey(id)

\* Mutant of MapTasks: an issue of an unlisted project is dropped.
MapTasks_DropUnlisted(list, projects, t, z) ==
    LET listed == SelectSeq(list, LAMBDA x : MapGet(projects, x.projectId, Len(projects)).defined)
    IN  [i \in 1..Len(listed) |->
            transformIssueToTask(listed[i], ProjectKeyOf(projects, listed[i].projectId), t, z)]

\* issues.map((issue) => transformIssueToTask(issue, projectKey))
MapTasks(list, projects, t, z) ==
    [i \in 1..Len(list) |->
        transformIssueToTask(list[i], ProjectKeyOf(projects, list[i].projectId), t, z)]

\* The exported functions that read the configuration.
EntryPoints ==
    {"fetchBacklogTasks", "fetchIssues", "fetchProjects", "fetchProjectStatuses", "fetchUsers"}

-----------------------------------------------------------------------------
(* Dashboard hooks: useTasks, useTaskFilter, and the status of a task card. *)

\* The most /api/tasks requests one mounted useTasks issues.
MaxFetches == 3

\* The status name of a completed task.
Completed == "U+5B8CU+4E86"

\* Six Tasks as /api/tasks serves them: overdue, due tomorrow, completed
\* within its deadline, overdue although completed, without due date, and
\* within its deadline.
MockTasks ==
    << [ id |-> 1, projectKey |-> "TEST1", summary |-> "task 1", status |-> "U+51E6U+7406U+4E2D",
         assigneeName |-> Some("Tanaka"), creatorName |-> Some("Sato"), dueDate |-> Some(DateStr(0)),
         isOverdue |-> TRUE, overdueDays |-> 3, isDueTomorrow |-> FALSE ],
       [ id |-> 2, projectKey |-> "TEST2", summary |-> "task 2", status |-> "U+672AU+5BFEU+5FDC",
         assigneeName |-> Some("Sato"), creatorName |-> Some("Sato"), dueDate |-> Some(DateStr(4)),
         isOverdue |-> FALSE, overdueDays |-> 0, isDueTomorrow |-> TRUE ],
       [ id |-> 3, projectKey |-> "TEST1", summary |-> "task 3", status |-> Completed,
         assigneeName |-> Absent, creatorName |-> Some("Tanaka"), dueDate |-> Some(DateStr(5)),
         isOverdue |-> FALSE, overdueDays |-> 0, isDueTomorrow |-> FALSE ],
       [ id |-> 4, projectKey |-> "TEST2", summary |-> "task 4", status |-> Completed,
         assigneeName |-> Some("Tanaka"), creatorName |-> Absent, dueDate |-> Some(DateStr(2)),
         isOverdue |-> TRUE, overdueDays |-> 1, isDueTomorrow |-> FALSE ],
       [ id |-> 5, projectKey |-> "APP", summary |-> "task 5", status |-> "U+51E6U+7406U+4E2D",
         assigneeName |-> Some("Suzuki"), creatorName |-> Some("Suzuki"), dueDate |-> Absent,
         isOverdue |-> FALSE, overdueDays |-> 0, isDueTomorrow |-> FALSE ],
       [ id |-> 6, projectKey |-> "APP", summary |-> "task 6", status |-> "U+51E6U+7406U+4E2D",
         assigneeName |-> Some("Sato"), creatorName |-> Some("Tanaka"), dueDate |-> Some(DateStr(6)),
         isOverdue |-> FALSE, overdueDays |-> 0, isDueTomorrow |-> FALSE ] >>

\* The task lists /api/tasks answers with.
TaskLists ==
    { <<>>,
      <<MockTasks[5]>>,
      <<MockTasks[1], MockTasks[2], MockTasks[3]>>,
      <<MockTasks[4], MockTasks[5], MockTasks[6]>>,
      <<MockTasks[6], MockTasks[4], MockTasks[2], MockTasks[1]>> }

\* What /api/tasks answers: an OK response with a task list; a response that
\* is not OK whose JSON body has an error field, has none, or is no JSON; or
\* no response (fetch rejects with an Error).
TaskResponses ==
    {[kind |-> "ok", body |-> l, error |-> Absent] : l \in TaskLists} \cup
    { [kind |-> "http", body |-> <<>>, error |-> Some("APIU+63A5U+7D9AU+30A8U+30E9U+30FC")],
      [kind |-> "http", body |-> <<>>, error |-> Absent],
      [kind |-> "httpNotJson", body |-> <<>>, error |-> Absent],
      [kind |-> "throw", body |-> <<>>, error |-> Absent] }

\* Mutant of TaskErrorMessage: no default message for a body without error field.
TaskErrorMessage_NoDefault(resp) ==
    CASE resp.kind = "http" -> IF resp.error.defined THEN resp.error.value ELSE "undefined"
      [] resp.kind = "httpNotJson" -> "Unexpected token < in JSON at position 0"
      [] OTHER -> "Network Error"

\* (err as Error).message in the catch of fetchTasks, for a response that is
\* not OK or a rejected request.
TaskErrorMessage(resp) ==
    CASE resp.kind = "http" ->
            IF resp.error.defined /\ resp.error.value # "" THEN resp.error.value
            ELSE "U+30BFU+30B9U+30AFU+53D6U+5F97U+306BU+5931U+6557U+3057U+307EU+3057U+305F"
      [] resp.kind = "httpNotJson" -> "Unexpected token < in JSON at position 0"
      [] OTHER -> "Network Error"

\* viewMode === 'creator' ? task.creatorName : task.assigneeName
PersonName(task, mode) == IF mode = "creator" THEN task.creatorName ELSE task.assigneeName

\* Array.from(set).sort(): the names and project keys of the tasks in the
\* order of their UTF-16 code units.
Sort(set) ==
    SelectSeq(<<"APP", "Sato", "Suzuki", "TEST1", "TEST2", "Tanaka">>, LAMBDA x : x \in set)

availableAssignees(list, mode) ==
    <<"all">> \o Sort({ PersonName(list[i], mode).value :
                          i \in {j \in 1..Len(list) : /\ PersonName(list[j], mode).defined
                                                      /\ PersonName(list[j], mode).value # ""} })

availableProjects(list) == <<"all">> \o Sort({list[i].projectKey : i \in 1..Len(list)})

\* The switch on statusFilter.
MatchesStatus(task, filter) ==
    CASE filter = "overdue" -> task.isOverdue
      [] filter = "due-tomorrow" -> task.isDueTomorrow
      [] OTHER -> TRUE

\* Mutant of MatchesPerson: the person filter is ignored.
MatchesPerson_Any(task, mode, filter) == TRUE

\* assigneeFilter === 'all' || personName === assigneeFilter
MatchesPerson(task, mode, filter) ==
    filter = "all" \/ (PersonName(task, mode).defined /\ PersonName(task, mode).value = filter)

\* projectFilter === 'all' || task.projectKey === projectFilter
MatchesProject(task, filter) == filter = "all" \/ task.projectKey = filter

filteredTasks(list, mode, sf, af, pf) ==
    SelectSeq(list, LAMBDA task :
        MatchesStatus(task, sf) /\ MatchesPerson(task, mode, af) /\ MatchesProject(task, pf))

stats(list, filtered) ==
    [ totalTasks |-> Len(list),
      overdueTasks |-> Len(SelectSeq(list, LAMBDA task : task.isOverdue)),
      dueTomorrowTasks |-> Len(SelectSeq(list, LAMBDA task : task.isDueTomorrow)),
      completedTasks |-> Len(SelectSeq(list, LAMBDA task : task.status = Completed)),
      filteredCount |-> Len(filtered) ]

\* Mutant of getTaskStatusConfig: the status is looked at before the urgency.
getTaskStatusConfig_CompletedFirst(task) ==
    IF task.status = Completed
    THEN [state |-> "completed", badgeText |-> "U+5B8CU+4E86"]
    ELSE IF task.isOverdue
    THEN [state |-> "overdue", badgeText |-> ToString(task.overdueDays) \o "U+65E5U+9045U+5EF6"]
    ELSE IF task.isDueTomorrow
    THEN [state |-> "dueTomorrow", badgeText |-> "U+660EU+65E5U+671FU+9650"]
    ELSE IF task.dueDate.defined
    THEN [state |-> "withinDeadline", badgeText |-> "U+671FU+9650U+5185"]
    ELSE [state |-> "noDeadline", badgeText |-> "U+671FU+9650U+672AU+8A2DU+5B9A"]

\* getTaskStatusConfig(task): the entry of STATUS_CONFIG and the badge text.
getTaskStatusConfig(task) ==
    IF task.isOverdue
    THEN [state |-> "overdue", badgeText |-> ToString(task.overdueDays) \o "U+65E5U+9045U+5EF6"]
    ELSE IF task.isDueTomorrow
    THEN [state |-> "dueTomorrow", badgeText |-> "U+660EU+65E5U+671FU+9650"]
    ELSE IF task.status = Completed
    THEN [state |-> "completed", badgeText |-> "U+5B8CU+4E86"]
    ELSE IF task.dueDate.defined
    THEN [state |-> "withinDeadline", badgeText |-> "U+671FU+9650U+5185"]
    ELSE [state |-> "noDeadline", badgeText |-> "U+671FU+9650U+672AU+8A2DU+5B9A"]

\* One render of useTaskFilter and of a task card for every filtered task.
Render(list, mode, sf, af, pf) ==
    [ availableAssignees |-> availableAssignees(list, mode),
      availableProjects |-> availableProjects(list),
      filteredTasks |-> filteredTasks(list, mode, sf, af, pf),
      stats |-> stats(list, filteredTasks(list, mode, sf, af, pf)),
      cards |-> [i \in 1..Len(filteredTasks(list, mode, sf, af, pf)) |->
                    getTaskStatusConfig(filteredTasks(list, mode, sf, af, pf)[i])] ]

-----------------------------------------------------------------------------
(* SpecUrgency *)

\* No call of calculateOverdueStatus has been made.
UIdle ==
    /\ dueDate = Undefined
    /\ result = [p \in Procs |-> NotUrgent]
    /\ clockRead = [p \in Procs |-> FALSE]
    /\ ustate = "idle"

\* No call of isCompletedStatus has been made.
CIdle ==
    /\ statusName = <<>>
    /\ completed = FALSE
    /\ cstate = "idle"

\* The URL of the issue-list request carries no filter.
NoParams == [projectId |-> <<>>, statusId |-> <<>>, assigneeId |-> <<>>]

\* No call of getActiveStatusIds is running.
RIdle ==
    /\ projectIds = <<>>
    /\ fetches = <<>>
    /\ requests = <<>>
    /\ settleOrder = <<>>
    /\ rresult = Ok(<<>>)
    /\ rpc = "idle"

\* No exported function is running.
PIdle ==
    /\ entry = "none"
    /\ ppc = "idle"
    /\ plog = <<>>
    /\ projectMap = Absent
    /\ params = NoParams
    /\ issues = Absent
    /\ presult = Ok(<<>>)

\* No call of transformIssueToTask has been made.
TIdle ==
    /\ targs = Absent
    /\ ttask = Absent
    /\ tstate = "idle"

\* useTasks has rendered once and its effect has not run.
HIdle ==
    /\ viewMode = "assignee"
    /\ tasks = <<>>
    /\ loading = TRUE
    /\ error = Absent
    /\ inflight = {}
    /\ issued = 0
    /\ settled = Absent

\* useTaskFilter has rendered once, with no tasks.
FIdle ==
    /\ taskList = <<>>
    /\ filterMode = "assignee"
    /\ statusFilter = "all"
    /\ assigneeFilter = "all"
    /\ projectFilter = "all"
    /\ view = Render(<<>>, "assignee", "all", "all", "all")

UInit ==
    /\ now \in Instants
    /\ tz \in [Procs -> Zones]
    /\ UIdle
    /\ CIdle
    /\ env = UnscopedEnv
    /\ RIdle
    /\ PIdle
    /\ TIdle
    /\ HIdle
    /\ FIdle

\* The same call, at the same instant, in every process.
UCall(d) ==
    /\ ustate = "idle"
    /\ dueDate' = d
    /\ result' = [p \in Procs |-> calculateOverdueStatus(d, now, tz[p])]
    /\ clockRead' = [p \in Procs |-> ReadsClock(d)]
    /\ ustate' = "returned"
    /\ UNCHANGED <<now, tz, cvars, rvars, pvars, tvars, hvars, fvars>>

\* The caller takes the result.
UReturn ==
    /\ ustate = "returned"
    /\ ustate' = "idle"
    /\ dueDate' = Undefined
    /\ result' = [p \in Procs |-> NotUrgent]
    /\ clockRead' = [p \in Procs |-> FALSE]
    /\ UNCHANGED <<now, tz, cvars, rvars, pvars, tvars, hvars, fvars>>

\* The clock advances between calls.
UTick ==
    /\ ustate = "idle"
    /\ now + 1 \in Instants
    /\ now' = now + 1
    /\ UNCHANGED <<tz, dueDate, result, clockRead, ustate, cvars, rvars, pvars, tvars, hvars, fvars>>

UNext ==
    \/ \E d \in DueDates : UCall(d)
    \/ UReturn
    \/ UTick

SpecUrgency == UInit /\ [][UNext]_vars

-----------------------------------------------------------------------------
(* SpecClassifier *)

\* Status names of the tests and the specification, and near misses of the
\* patterns.
SampleNames ==
    { <<"D", "o", "n", "e">>,
      <<"C", "l", "o", "s", "e", "d">>,
      <<"C", "l", "o", "s", "e">>,
      <<"O", "p", "e", "n">>,
      <<"I", "n", " ", "P", "r", "o", "g", "r", "e", "s", "s">>,
      <<"U+5B8C", "U+4E86">>,
      <<"U+5B8C", "U+6210">>,
      <<"U+51E6", "U+7406", "U+4E2D">>,
      <<"U+672A", "U+5BFE", "U+5FDC">>,
      <<"U+51E6", "U+7406", "U+6E08", "U+307F">>,
      <<"C", "l", "o", "s", "e", "d", "-", "W", "o", "n">>,
      <<"U", "n", "c", "o", "m", "p", "l", "e", "t", "e", "d">>,
      <<"C", "o", "m", "p", "l", "e", "t", "e">>,
      <<"F", "i", "n", "i", "s", "h", "e", "d">>,
      <<"F", "i", "n", "i", "s", "h">>,
      <<"C", "l", "o", "s", "i", "n", "g">>,
      <<"C", "o", "m", "p", "l", "e", "t", "i", "o", "n">>,
      <<"D", "o", " ", "n", "e">>,
      <<"N", "o", "t", " ", "d", "o", "n", "e">> }

\* The characters of the exhaustive names: those of "done" and a separator.
NameChars == {"d", "o", "n", "e", "-"}

\* Every string of at most MaxNameLen characters of NameChars.
ShortNames == UNION {[1..n -> NameChars] : n \in 0..MaxNameLen}

StatusNames == SampleNames \cup ShortNames

\* s with the letter at position i in the other case.
ToggleCase(s, i) ==
    [s EXCEPT ![i] = IF LowerChar(s[i]) = s[i] THEN UpperChar(s[i]) ELSE LowerChar(s[i])]

CInit ==
    /\ CIdle
    /\ now = 0
    /\ tz = [p \in Procs |-> CHOOSE z \in Zones : z.name = "UTC"]
    /\ UIdle
    /\ env = UnscopedEnv
    /\ RIdle
    /\ PIdle
    /\ TIdle
    /\ HIdle
    /\ FIdle

\* isCompletedStatus(name)
CClassify(name) ==
    /\ cstate = "idle"
    /\ statusName' = name
    /\ completed' = isCompletedStatus(name)
    /\ cstate' = "classified"
    /\ UNCHANGED <<uvars, rvars, pvars, tvars, hvars, fvars>>

\* isCompletedStatus of the last name with one letter changed to the other case.
CRecase(i) ==
    /\ cstate = "classified"
    /\ i \in 1..Len(statusName)
    /\ ToggleCase(statusName, i) # statusName
    /\ statusName' = ToggleCase(statusName, i)
    /\ completed' = isCompletedStatus(ToggleCase(statusName, i))
    /\ UNCHANGED <<cstate, uvars, rvars, pvars, tvars, hvars, fvars>>

\* The caller takes the result.
CReturn ==
    /\ cstate = "classified"
    /\ statusName' = <<>>
    /\ completed' = FALSE
    /\ cstate' = "idle"
    /\ UNCHANGED <<uvars, rvars, pvars, tvars, hvars, fvars>>

CNext ==
    \/ \E name \in StatusNames : CClassify(name)
    \/ \E i \in 1..Len(statusName) : CRecase(i)
    \/ CReturn

SpecClassifier == CInit /\ [][CNext]_vars

-----------------------------------------------------------------------------
(* SpecResolver *)

RInit ==
    /\ env \in {e \in Envs : ~e.PROJECT_KEYS.set /\ ~e.MEMBER_KEYS.set}
    /\ RIdle
    /\ PIdle
    /\ TIdle
    /\ HIdle
    /\ FIdle
    /\ now = 0
    /\ tz = [p \in Procs |-> CHOOSE z \in Zones : z.name = "UTC"]
    /\ UIdle
    /\ CIdle

\* getActiveStatusIds(ids) up to its await: the early return for no ids, or
\* one fetchProjectStatuses call per id, each run up to its own await.
RCall(ids) ==
    /\ rpc = "idle"
    /\ projectIds' = ids
    /\ IF Len(ids) = 0
       THEN /\ rresult' = Ok(<<>>)
            /\ rpc' = "returned"
            /\ UNCHANGED <<fetches, requests>>
       ELSE /\ fetches' = MapStatusPromises(ids)
            /\ requests' = RequestsOf(ids, MapStatusPromises(ids), 1)
            /\ rpc' = "awaiting"
            /\ UNCHANGED rresult
    /\ UNCHANGED <<env, settleOrder, uvars, cvars, pvars, tvars, hvars, fvars>>

\* The request of fetch i settles with resp, and fetchProjectStatuses and the
\* map callback run to their end.
RSettle(i, resp) ==
    /\ rpc = "awaiting"
    /\ fetches[i].state = "pending"
    /\ fetches' = [fetches EXCEPT ![i] = Settled(resp, StatusPromise(fetchProjectStatuses(resp)))]
    /\ settleOrder' = Append(settleOrder, i)
    /\ UNCHANGED <<env, projectIds, requests, rresult, rpc, uvars, cvars, pvars, tvars, hvars, fvars>>

\* Promise.all has resolved: the rest of getActiveStatusIds.
RGather ==
    /\ rpc = "awaiting"
    /\ \A i \in 1..Len(fetches) : fetches[i].state = "settled"
    /\ rresult' = ActiveStatusIds([i \in 1..Len(fetches) |-> fetches[i].result])
    /\ rpc' = "returned"
    /\ UNCHANGED <<env, projectIds, fetches, requests, settleOrder, uvars, cvars, pvars, tvars, hvars, fvars>>

\* The caller takes the result.
RReturn ==
    /\ rpc = "returned"
    /\ projectIds' = <<>>
    /\ fetches' = <<>>
    /\ requests' = <<>>
    /\ settleOrder' = <<>>
    /\ rresult' = Ok(<<>>)
    /\ rpc' = "idle"
    /\ UNCHANGED <<env, uvars, cvars, pvars, tvars, hvars, fvars>>

RNext ==
    \/ \E ids \in ProjectIdLists : RCall(ids)
    \/ \E i \in 1..Len(fetches) : \E resp \in Responses : RSettle(i, resp)
    \/ RGather
    \/ RReturn

SpecResolver == RInit /\ [][RNext]_vars


-----------------------------------------------------------------------------
(* SpecTransformer *)

\* The project keys passed to transformIssueToTask.
TransformerKeys == {"TEST", "PROJECT_999"}

TInit ==
    /\ TIdle
    /\ HIdle
    /\ FIdle
    /\ now \in {15, 39}
    /\ tz \in [Procs -> Zones]
    /\ UIdle
    /\ CIdle
    /\ env = UnscopedEnv
    /\ RIdle
    /\ PIdle

\* transformIssueToTask(issue, projectKey, allIssues), allIssues optional.
TCall(issue, projectKey, allIssues) ==
    /\ tstate = "idle"
    /\ targs' = Some([issue |-> issue, projectKey |-> projectKey, allIssues |-> allIssues])
    /\ ttask' = Some(transformIssueToTask(issue, projectKey, now, tz[1]))
    /\ tstate' = "returned"
    /\ UNCHANGED <<uvars, cvars, rvars, pvars, hvars, fvars>>

\* The caller takes the Task.
TReturn ==
    /\ tstate = "returned"
    /\ targs' = Absent
    /\ ttask' = Absent
    /\ tstate' = "idle"
    /\ UNCHANGED <<uvars, cvars, rvars, pvars, hvars, fvars>>

TNext ==
    \/ \E issue \in RemoteIssues, projectKey \in TransformerKeys,
          allIssues \in {Absent} \cup {Some(l) : l \in IssueLists} :
            TCall(issue, projectKey, allIssues)
    \/ TReturn

SpecTransformer == TInit /\ [][TNext]_vars

-----------------------------------------------------------------------------
(* SpecPipeline: one call of an exported function at a time, each await of   *)
(* the call a step of its own.                                              *)

PInit ==
    /\ env \in Envs
    /\ PIdle
    /\ RIdle
    /\ TIdle
    /\ HIdle
    /\ FIdle
    /\ now = 39
    /\ tz = [p \in Procs |-> CHOOSE z \in Zones : z.name = "Asia/Tokyo"]
    /\ UIdle
    /\ CIdle

\* The call returns r.
PFinish(r) ==
    /\ presult' = r
    /\ ppc' = "returned"

\* fetchIssues from its member scoping on, with the filters prm: the user-list
\* request when member keys are configured, the issue-list request otherwise.
PMemberScope(prm) ==
    /\ params' = prm
    /\ IF Len(getBacklogConfig.value.memberKeys) > 0
       THEN /\ plog' = Append(plog, Req("users", NoParams))
            /\ ppc' = "scopeUsers"
       ELSE /\ plog' = Append(plog, Req("issues", prm))
            /\ ppc' = "issues"
    /\ UNCHANGED presult

\* fetchIssues from its start: the project-list request when project keys are
\* configured.
PFetchIssues ==
    IF Len(getBacklogConfig.value.projectKeys) > 0
    THEN /\ plog' = Append(plog, Req("projects", NoParams))
         /\ ppc' = "scopeProjects"
         /\ UNCHANGED <<params, presult>>
    ELSE PMemberScope(NoParams)

\* An exported function is called and runs to its first await: without
\* configuration it returns the configuration error, otherwise it issues its
\* first request.
PCall(fn) ==
    /\ ppc = "idle"
    /\ rpc = "idle"
    /\ entry' = fn
    /\ IF ~getBacklogConfig.ok
       THEN /\ PFinish(Err(getBacklogConfig.error))
            /\ UNCHANGED <<plog, params>>
       ELSE CASE fn \in {"fetchBacklogTasks", "fetchProjects"} ->
                    /\ plog' = Append(plog, Req("projects", NoParams))
                    /\ ppc' = "projects"
                    /\ UNCHANGED <<params, presult>>
              [] fn = "fetchUsers" ->
                    /\ plog' = Append(plog, Req("users", NoParams))
                    /\ ppc' = "users"
                    /\ UNCHANGED <<params, presult>>
              [] fn = "fetchProjectStatuses" ->
                    /\ plog' = Append(plog, Req("statuses", NoParams))
                    /\ ppc' = "statuses"
                    /\ UNCHANGED <<params, presult>>
              [] OTHER -> PFetchIssues
    /\ UNCHANGED <<projectMap, issues, uvars, cvars, rvars, tvars, hvars, fvars>>

\* The project-list request of fetchProjects settles with resp.  Called on
\* its own, fetchProjects returns; in fetchBacklogTasks a failure is returned
\* as it is, and a list becomes the project map and fetchIssues starts.
PProjects(resp) ==
    /\ ppc = "projects"
    /\ IF entry = "fetchProjects"
       THEN /\ PFinish(fetchProjects(resp))
            /\ UNCHANGED <<plog, projectMap, params>>
       ELSE IF ~fetchProjects(resp).ok
       THEN /\ PFinish(PassError(fetchProjects(resp)))
            /\ UNCHANGED <<plog, projectMap, params>>
       ELSE /\ projectMap' = Some(fetchProjects(resp).value)
            /\ PFetchIssues
    /\ UNCHANGED <<entry, issues, uvars, cvars, rvars, tvars, hvars, fvars>>

\* The user-list request of fetchUsers, called on its own, settles with resp.
PUsers(resp) ==
    /\ ppc = "users"
    /\ PFinish(fetchUsers(resp))
    /\ UNCHANGED <<entry, plog, projectMap, params, issues, uvars, cvars, rvars, tvars, hvars, fvars>>

\* The request of fetchProjectStatuses, called on its own, settles with resp.
PStatuses(resp) ==
    /\ ppc = "statuses"
    /\ PFinish(fetchProjectStatuses(resp))
    /\ UNCHANGED <<entry, plog, projectMap, params, issues, uvars, cvars, rvars, tvars, hvars, fvars>>

\* The project-list request of fetchIssues settles with resp: a wrapped
\* failure, the scoping error, or the project-id filters and the call of
\* getActiveStatusIds up to its await.
PScopeProjects(resp) ==
    /\ ppc = "scopeProjects"
    /\ LET keys == getBacklogConfig.value.projectKeys
           filteredProjects == FilterProjects(fetchProjects(resp).value, keys)
       IN  IF ~fetchProjects(resp).ok
           THEN /\ PFinish(ProjectInfoError(fetchProjects(resp).error))
                /\ UNCHANGED <<params, rvars>>
           ELSE IF Len(filteredProjects) = 0
           THEN /\ PFinish(ScopingError(keys))
                /\ UNCHANGED <<params, rvars>>
           ELSE /\ params' = [params EXCEPT !.projectId = ToStrings(Ids(filteredProjects))]
                /\ projectIds' = Ids(filteredProjects)
                /\ fetches' = MapStatusPromises(Ids(filteredProjects))
                /\ requests' = RequestsOf(Ids(filteredProjects), MapStatusPromises(Ids(filteredProjects)), 1)
                /\ rpc' = "awaiting"
                /\ ppc' = "scopeStatuses"
                /\ UNCHANGED <<env, settleOrder, rresult, presult>>
    /\ UNCHANGED <<entry, plog, projectMap, issues, uvars, cvars, tvars, hvars, fvars>>

\* getActiveStatusIds has returned to fetchIssues: a failure is returned, the
\* active ids become status-id filters, and the member scoping starts.
PScopeStatuses ==
    /\ ppc = "scopeStatuses"
    /\ rpc = "returned"
    /\ IF ~rresult.ok
       THEN /\ PFinish(rresult)
            /\ UNCHANGED <<plog, params>>
       ELSE PMemberScope([params EXCEPT !.statusId = ToStrings(rresult.value)])
    /\ UNCHANGED <<entry, projectMap, issues, uvars, cvars, rvars, tvars, hvars, fvars>>

\* The user-list request of fetchIssues settles with resp: a failure is only
\* logged, a list yields the assignee-id filters; then the issue-list request.
PScopeUsers(resp) ==
    /\ ppc = "scopeUsers"
    /\ LET filteredUsers == FilterUsers(fetchUsers(resp).value, getBacklogConfig.value.memberKeys)
           prm == IF fetchUsers(resp).ok
                  THEN [params EXCEPT !.assigneeId = ToStrings(Ids(filteredUsers))]
                  ELSE params
       IN  /\ params' = prm
           /\ plog' = Append(plog, Req("issues", prm))
           /\ ppc' = "issues"
    /\ UNCHANGED <<entry, projectMap, issues, presult, uvars, cvars, rvars, tvars, hvars, fvars>>

\* The issue-list request settles with resp and fetchIssues returns; in
\* fetchBacklogTasks a failure is returned as it is and a list is mapped to Tasks.
PIssues(resp) ==
    /\ ppc = "issues"
    /\ IF ~fetchIssues(resp).ok
       THEN /\ PFinish(IF entry = "fetchIssues" THEN fetchIssues(resp)
                                                ELSE PassError(fetchIssues(resp)))
            /\ UNCHANGED issues
       ELSE /\ issues' = Some(fetchIssues(resp).value)
            /\ IF entry = "fetchIssues"
               THEN PFinish(fetchIssues(resp))
               ELSE PFinish(Ok(MapTasks(fetchIssues(resp).value, projectMap.value, now, tz[1])))
    /\ UNCHANGED <<entry, plog, projectMap, params, uvars, cvars, rvars, tvars, hvars, fvars>>

\* The caller takes the result.
PReturn ==
    /\ ppc = "returned"
    /\ entry' = "none"
    /\ ppc' = "idle"
    /\ plog' = <<>>
    /\ projectMap' = Absent
    /\ params' = NoParams
    /\ issues' = Absent
    /\ presult' = Ok(<<>>)
    /\ projectIds' = <<>>
    /\ fetches' = <<>>
    /\ requests' = <<>>
    /\ settleOrder' = <<>>
    /\ rresult' = Ok(<<>>)
    /\ rpc' = "idle"
    /\ UNCHANGED <<env, uvars, cvars, tvars, hvars, fvars>>

PNext ==
    \/ \E fn \in EntryPoints : PCall(fn)
    \/ \E resp \in ListResponses(ProjectLists) : PProjects(resp)
    \/ \E resp \in ListResponses(UserLists) : PUsers(resp)
    \/ \E resp \in Responses : PStatuses(resp)
    \/ \E resp \in ListResponses(ProjectLists) : PScopeProjects(resp)
    \/ \E i \in 1..Len(fetches) : \E resp \in Responses : RSettle(i, resp)
    \/ RGather
    \/ PScopeStatuses
    \/ \E resp \in ListResponses(UserLists) : PScopeUsers(resp)
    \/ \E resp \in ListResponses(IssueLists) : PIssues(resp)
    \/ PReturn

SpecPipeline == PInit /\ [][PNext]_vars

-----------------------------------------------------------------------------
(* SpecRun: runs of fetchBacklogTasks in which every request that is issued  *)
(* eventually settles and every continuation that is ready eventually runs. *)

\* The environments of the runs: no scoping, both scopes with keys that match,
\* project keys that match nothing, and a member key that matches no user.
RunEnvs ==
    { e \in Envs :
        /\ e.BACKLOG_SPACE_URL = Text("https://example.backlog.jp")
        /\ e.BACKLOG_API_KEY \in {Text("api-key"), Unset}
        /\ <<e.PROJECT_KEYS, e.MEMBER_KEYS>> \in
              { <<UnsetList, UnsetList>>,
                <<Fields(<<"TEST1", "TEST2">>), Fields(<<"user1">>)>>,
                <<Fields(<<"NOPE">>), UnsetList>>,
                <<Fields(<<"TEST1">>), Fields(<<"ghost">>)>> } }

\* The status-list responses of the runs: the default vocabulary, an empty
\* list, and every failure.
RunStatusResponses ==
    {r \in Responses : r.kind # "ok" \/ r.body \in {<<>>, DefaultStatuses}}

RunInit ==
    /\ env \in RunEnvs
    /\ PIdle
    /\ RIdle
    /\ TIdle
    /\ HIdle
    /\ FIdle
    /\ now = 39
    /\ tz = [p \in Procs |-> CHOOSE z \in Zones : z.name = "Asia/Tokyo"]
    /\ UIdle
    /\ CIdle

\* A request of the run settles.
RunSettle ==
    \/ \E resp \in ListResponses(ProjectLists) : PProjects(resp)
    \/ \E resp \in ListResponses(ProjectLists) : PScopeProjects(resp)
    \/ \E i \in 1..Len(fetches) : \E resp \in RunStatusResponses : RSettle(i, resp)
    \/ \E resp \in ListResponses(UserLists) : PScopeUsers(resp)
    \/ \E resp \in ListResponses(IssueLists) : PIssues(resp)

\* A continuation of the run that waits for no request.
RunContinue ==
    \/ RGather
    \/ PScopeStatuses

RunNext ==
    \/ PCall("fetchBacklogTasks")
    \/ RunSettle
    \/ RunContinue
    \/ PReturn

SpecRun == RunInit /\ [][RunNext]_vars /\ WF_vars(RunSettle) /\ WF_vars(RunContinue)

-----------------------------------------------------------------------------
(* SpecTasksHook: one mounted useTasks(viewMode). *)

\* The dashboard has rendered once: no effect has run, nothing is loaded.
DashboardInit ==
    /\ HIdle
    /\ FIdle
    /\ TIdle
    /\ PIdle
    /\ RIdle
    /\ env = UnscopedEnv
    /\ now = 0
    /\ tz = [p \in Procs |-> CHOOSE z \in Zones : z.name = "UTC"]
    /\ UIdle
    /\ CIdle

\* fetchTasks() up to its await: setLoading(true) and the request.
HFetch(mode) ==
    /\ issued < MaxFetches
    /\ loading' = TRUE
    /\ inflight' = inflight \cup {[seq |-> issued + 1, mode |-> mode]}
    /\ issued' = issued + 1
    /\ settled' = Absent
    /\ UNCHANGED <<tasks, error>>

\* The effect of the first render.
HMount ==
    /\ issued = 0
    /\ HFetch(viewMode)
    /\ UNCHANGED <<viewMode, uvars, cvars, rvars, pvars, tvars, fvars>>

\* The hook is rendered with another view mode: fetchTasks is a new callback
\* and the effect runs again.
HViewMode(mode) ==
    /\ issued > 0
    /\ mode # viewMode
    /\ viewMode' = mode
    /\ HFetch(mode)
    /\ UNCHANGED <<uvars, cvars, rvars, pvars, tvars, fvars>>

\* refetch()
HRefetch ==
    /\ issued > 0
    /\ HFetch(viewMode)
    /\ UNCHANGED <<viewMode, uvars, cvars, rvars, pvars, tvars, fvars>>

\* Request r settles with resp and fetchTasks runs to its end.
HSettle(r, resp) ==
    /\ r \in inflight
    /\ inflight' = inflight \ {r}
    /\ IF resp.kind = "ok"
       THEN /\ tasks' = resp.body
            /\ error' = Absent
       ELSE /\ error' = Some(TaskErrorMessage(resp))
            /\ UNCHANGED tasks
    /\ loading' = FALSE
    /\ settled' = IF r.seq = issued THEN Some(resp) ELSE settled
    /\ UNCHANGED <<viewMode, issued, uvars, cvars, rvars, pvars, tvars, fvars>>

HNext ==
    \/ HMount
    \/ \E mode \in {"assignee", "creator"} : HViewMode(mode)
    \/ HRefetch
    \/ \E r \in inflight : \E resp \in TaskResponses : HSettle(r, resp)

SpecTasksHook == DashboardInit /\ [][HNext]_vars

-----------------------------------------------------------------------------
(* SpecTaskFilter: one mounted useTaskFilter(tasks, viewMode) and the cards  *)
(* of its filtered tasks.                                                   *)

\* setStatusFilter(filter), from one of the three header buttons.
FSetStatusFilter(filter) ==
    /\ statusFilter' = filter
    /\ view' = Render(taskList, filterMode, filter, assigneeFilter, projectFilter)
    /\ UNCHANGED <<taskList, filterMode, assigneeFilter, projectFilter>>
    /\ UNCHANGED <<uvars, cvars, rvars, pvars, tvars, hvars>>

\* setAssigneeFilter(name), name an option of the rendered list.
FSetAssigneeFilter(name) ==
    /\ name \in Range(view.availableAssignees)
    /\ assigneeFilter' = name
    /\ view' = Render(taskList, filterMode, statusFilter, name, projectFilter)
    /\ UNCHANGED <<taskList, filterMode, statusFilter, projectFilter>>
    /\ UNCHANGED <<uvars, cvars, rvars, pvars, tvars, hvars>>

\* setProjectFilter(key), key an option of the rendered list.
FSetProjectFilter(key) ==
    /\ key \in Range(view.availableProjects)
    /\ projectFilter' = key
    /\ view' = Render(taskList, filterMode, statusFilter, assigneeFilter, key)
    /\ UNCHANGED <<taskList, filterMode, statusFilter, assigneeFilter>>
    /\ UNCHANGED <<uvars, cvars, rvars, pvars, tvars, hvars>>

\* The hook is rendered with another task list: the tasks were loaded again.
FTasks(list) ==
    /\ list # taskList
    /\ taskList' = list
    /\ view' = Render(list, filterMode, statusFilter, assigneeFilter, projectFilter)
    /\ UNCHANGED <<filterMode, statusFilter, assigneeFilter, projectFilter>>
    /\ UNCHANGED <<uvars, cvars, rvars, pvars, tvars, hvars>>

\* The hook is rendered with another view mode.
FViewMode(mode) ==
    /\ mode # filterMode
    /\ filterMode' = mode
    /\ view' = Render(taskList, mode, statusFilter, assigneeFilter, projectFilter)
    /\ UNCHANGED <<taskList, statusFilter, assigneeFilter, projectFilter>>
    /\ UNCHANGED <<uvars, cvars, rvars, pvars, tvars, hvars>>

FNext ==
    \/ \E filter \in {"all", "overdue", "due-tomorrow"} : FSetStatusFilter(filter)
    \/ \E name \in Range(view.availableAssignees) : FSetAssigneeFilter(name)
    \/ \E key \in Range(view.availableProjects) : FSetProjectFilter(key)
    \/ \E list \in TaskLists : FTasks(list)
    \/ \E mode \in {"assignee", "creator"} : FViewMode(mode)

SpecTaskFilter == DashboardInit /\ [][FNext]_vars

-----------------------------------------------------------------------------
(* Properties of the Urgency Calculator.  "Today" is the calendar date in  *)
(* Asia/Tokyo, as the specification of the calculator defines it.          *)

TokyoZone == CHOOSE z \in Zones : z.name = "Asia/Tokyo"

TokyoToday == LocalTime(TokyoZone, now) \div HoursPerDay

Returned == ustate = "returned"

\* The call was made with the date of a calendar day, with or without a time.
DueIsDate == dueDate.defined /\ dueDate.date.txt = "YYYY-MM-DD"

DueDay == dueDate.date.day

Urgency(o, n, t) == [isOverdue |-> o, overdueDays |-> Num(n), isDueTomorrow |-> t]

\* C1: every returned UrgencyResult has isOverdue and isDueTomorrow not both
\* true, overdueDays a non-negative integer, and overdueDays = 0 whenever
\* isOverdue is false, for every due-date input (also text that is no date).
C1_ResultInvariant ==
    Returned =>
        \A p \in Procs :
            /\ ~(result[p].isOverdue /\ result[p].isDueTomorrow)
            /\ ~result[p].overdueDays.nan
            /\ result[p].overdueDays.val >= 0
            /\ (~result[p].isOverdue => result[p].overdueDays = Num(0))

\* C2: a due date N >= 1 days before today yields exactly {true, N, false},
\* at every time of day and for every day length of the local zone.
C2_PastDateOverdueByN ==
    (Returned /\ DueIsDate /\ DueDay < TokyoToday) =>
        \A p \in Procs : result[p] = Urgency(TRUE, TokyoToday - DueDay, FALSE)

\* C3: a due date equal to today's calendar date in Asia/Tokyo yields exactly
\* {false, 0, false} at every instant.
C3_TodayNotUrgent ==
    (Returned /\ DueIsDate /\ DueDay = TokyoToday) =>
        \A p \in Procs : result[p] = Urgency(FALSE, 0, FALSE)

\* C4: a due date equal to the day after today (Asia/Tokyo) yields exactly
\* {false, 0, true}, and no other due date yields isDueTomorrow = true.
C4_TomorrowDueTomorrow ==
    Returned =>
        \A p \in Procs :
            /\ (DueIsDate /\ DueDay = TokyoToday + 1)
                   => result[p] = Urgency(FALSE, 0, TRUE)
            /\ result[p].isDueTomorrow
                   => (DueIsDate /\ DueDay = TokyoToday + 1)

\* C5: a due date two or more days after today yields exactly
\* {false, 0, false}; overdueDays is never negative.
C5_BeyondTomorrowNotUrgent ==
    (Returned /\ DueIsDate /\ DueDay >= TokyoToday + 2) =>
        \A p \in Procs : result[p] = Urgency(FALSE, 0, FALSE)

\* C5 witness: a call with a due date beyond tomorrow, made in a process whose
\* local "tomorrow" lies 25 hours ahead.
C5_Witness ==
    /\ Returned /\ DueIsDate /\ DueDay >= TokyoToday + 2
    /\ \E p \in Procs : SetDatePlusOne(tz[p], now) = now + HoursPerDay + 1

\* C6: a call with an absent due date returns exactly {false, 0, false} at
\* every instant, and does not read the clock.
C6_AbsentDueDate ==
    (Returned /\ dueDate = Undefined) =>
        \A p \in Procs : result[p] = Urgency(FALSE, 0, FALSE) /\ ~clockRead[p]

\* C6 witness: a call without a due date has returned.
C6_Witness == Returned /\ dueDate = Undefined /\ now > 0

\* C7: two evaluations with the same due date at the same instant, in
\* processes that differ only in their local timezone, return the same result.
C7_LocaleDeterminism ==
    Returned => \A p, q \in Procs : result[p] = result[q]

-----------------------------------------------------------------------------
(* Properties of the Status Classifier. *)

\* The fixed patterns, as the specification lists them.
C8_Patterns ==
    { <<"U+5B8C", "U+4E86">>, <<"U+5B8C", "U+6210">>, <<"d", "o", "n", "e">>,
      <<"c", "l", "o", "s", "e", "d">>, <<"c", "l", "o", "s", "e">>,
      <<"c", "o", "m", "p", "l", "e", "t", "e">>,
      <<"f", "i", "n", "i", "s", "h", "e", "d">> }

\* Some pattern is a substring of the lower-cased name.
C8_ContainsPattern(name) ==
    \E pat \in C8_Patterns :
        \E i \in 1..Len(name) :
            /\ i + Len(pat) - 1 <= Len(name)
            /\ \A j \in 1..Len(pat) : LowerTable[name[i + j - 1]] = pat[j]

\* Two names that differ only in the case of their letters.
C8_SameUpToCase(a, b) ==
    /\ Len(a) = Len(b)
    /\ \A i \in 1..Len(a) : LowerTable[a[i]] = LowerTable[b[i]]

\* C8: isCompletedStatus(name) is true exactly when the lower-cased name
\* contains one of the fixed patterns as a substring, and the answer does not
\* change when the case of the name's letters changes.
C8_ClassifierIffPattern ==
    /\ [](cstate = "classified" => (completed <=> C8_ContainsPattern(statusName)))
    /\ [][(cstate = "classified" /\ cstate' = "classified"
              /\ C8_SameUpToCase(statusName, statusName'))
            => completed' = completed]_vars

\* C8 witness: a name written in mixed case that contains a pattern only
\* after lower-casing has been classified completed.
C8_Witness ==
    /\ cstate = "classified"
    /\ completed
    /\ statusName = <<"D", "o", "N", "e">>

-----------------------------------------------------------------------------
(* Properties of the Active-Status Resolver. *)

RReturned == rpc = "returned"

\* Fetch i did not succeed: its response was not ok, its request was rejected,
\* or no request was made for lack of configuration.
FetchFailed(i) == fetches[i].resp.kind # "ok"

\* The statuses of the projects whose fetch succeeded.
FetchedStatuses ==
    UNION { Range(fetches[i].resp.body) : i \in {j \in 1..Len(fetches) : ~FetchFailed(j)} }

\* C9: getActiveStatusIds returns a success for every list of project ids and
\* every combination of fetch outcomes: [] for no ids (and no request issued),
\* [] when every fetch fails, and nothing from a failed project.
C9_ResolverAlwaysSucceeds ==
    /\ rresult.ok
    /\ RReturned =>
          /\ Len(projectIds) = 0 => (rresult.value = <<>> /\ requests = <<>>)
          /\ (\A i \in 1..Len(fetches) : FetchFailed(i)) => rresult.value = <<>>
          /\ Range(rresult.value) \subseteq {st.id : st \in FetchedStatuses}

\* C9 witness: a call has returned after one fetch got a failure response,
\* one was rejected and neither contributed.
C9_Witness ==
    /\ RReturned
    /\ Len(projectIds) >= 2
    /\ \E i, j \in 1..Len(fetches) :
          fetches[i].resp.kind = "http" /\ fetches[j].resp.kind = "throw"
    /\ rresult = Ok(<<>>)

\* C10: the value returned is exactly the set of ids of the statuses of the
\* successfully fetched projects that isCompletedStatus does not classify
\* completed, each id once.
C10_ExactlyActiveIds ==
    RReturned =>
        /\ Range(rresult.value) =
              {st.id : st \in {x \in FetchedStatuses : ~isCompletedStatus(x.name)}}
        /\ Cardinality(Range(rresult.value)) = Len(rresult.value)

\* C10 witness: two fetched projects share status id 2, "Done" in one and
\* "Open" in the other, and id 2 is returned once.
C10_Witness ==
    /\ RReturned
    /\ \E i, j \in 1..Len(fetches) :
          /\ i # j
          /\ fetches[i].resp.kind = "ok" /\ fetches[j].resp.kind = "ok"
          /\ \E a \in Range(fetches[i].resp.body), b \in Range(fetches[j].resp.body) :
                a.id = 2 /\ b.id = 2 /\ isCompletedStatus(a.name) /\ ~isCompletedStatus(b.name)
    /\ 2 \in Range(rresult.value)

\* The status ids of response resp that the resolver keeps.
ActiveIdsOf(resp) ==
    IF resp.kind = "ok"
    THEN {st.id : st \in {x \in Range(resp.body) : ~isCompletedStatus(x.name)}}
    ELSE {}

\* C11: getActiveStatusIds is a scatter-gather.  While it waits, the request
\* of every project id has been issued (none waits for another to complete);
\* it returns only after every fetch has settled, each exactly once; and the
\* set of ids it returns is a function of the responses alone, the same for
\* every order in which they arrived.
C11_ScatterGather ==
    /\ (rpc = "awaiting" /\ getBacklogConfig.ok) =>
          /\ requests = projectIds
          /\ \A i \in 1..Len(fetches) : fetches[i].state \in {"pending", "settled"}
    /\ (RReturned /\ Len(projectIds) >= 1) =>
          /\ Len(fetches) = Len(projectIds)
          /\ \A i \in 1..Len(fetches) : fetches[i].state = "settled"
          /\ getBacklogConfig.ok =>
                /\ Range(settleOrder) = 1..Len(projectIds)
                /\ Len(settleOrder) = Len(projectIds)
          /\ Range(rresult.value) = UNION {ActiveIdsOf(fetches[i].resp) : i \in 1..Len(fetches)}

\* C11 witness: the fetch of the second project settled before the fetch of
\* the first, both with active statuses, and the call returned their ids.
C11_Witness ==
    /\ RReturned
    /\ Len(projectIds) = 2
    /\ settleOrder = <<2, 1>>
    /\ fetches[1].resp.kind = "ok" /\ fetches[2].resp.kind = "ok"
    /\ ActiveIdsOf(fetches[1].resp) # ActiveIdsOf(fetches[2].resp)
    /\ ActiveIdsOf(fetches[1].resp) # {} /\ ActiveIdsOf(fetches[2].resp) # {}

-----------------------------------------------------------------------------
(* Properties of the Task Transformer. *)

TReturned == tstate = "returned"

\* The issues of the list passed as allIssues whose id is the parent issue id
\* of the transformed issue; none when either is missing.
C12_Parents ==
    IF targs.value.issue.parentIssueId.defined /\ targs.value.allIssues.defined
    THEN {x \in Range(targs.value.allIssues.value) : x.id = targs.value.issue.parentIssueId.value}
    ELSE {}

\* C12: transformIssueToTask(issue, key, allIssues) sets parentTask to the id,
\* issue key and summary of the parent exactly when the issue has a parent
\* issue id, allIssues is supplied and contains an issue with that id;
\* otherwise the Task has no parentTask.
C12_ParentTask ==
    TReturned =>
        IF C12_Parents # {}
        THEN /\ "parentTask" \in DOMAIN ttask.value
             /\ \E x \in C12_Parents :
                   ttask.value.parentTask = [id |-> x.id, issueKey |-> x.issueKey, summary |-> x.summary]
        ELSE Get(ttask.value, "parentTask") = Absent

\* C13: the Task carries the issue's id, issue key, issue-type name, summary,
\* status name, start date and due date unchanged and the supplied project
\* key; its assignee name is the name of the assignee, absent for an issue
\* without assignee; its urgency fields are calculateOverdueStatus(dueDate).
C13_FieldsCarried ==
    TReturned =>
        /\ ttask.value.id = targs.value.issue.id
        /\ ttask.value.issueType = targs.value.issue.issueType.name
        /\ ttask.value.summary = targs.value.issue.summary
        /\ ttask.value.status = targs.value.issue.status.name
        /\ ttask.value.startDate = targs.value.issue.startDate
        /\ ttask.value.dueDate = targs.value.issue.dueDate
        /\ ttask.value.projectKey = targs.value.projectKey
        /\ ttask.value.assigneeName =
              (IF targs.value.issue.assignee.defined
               THEN Some(targs.value.issue.assignee.value.name) ELSE Absent)
        /\ [f \in {"isOverdue", "overdueDays", "isDueTomorrow"} |-> ttask.value[f]] =
              calculateOverdueStatus(targs.value.issue.dueDate, now, tz[1])
        /\ "issueKey" \in DOMAIN ttask.value
        /\ ttask.value.issueKey = targs.value.issue.issueKey

-----------------------------------------------------------------------------
(* Properties of the Aggregation Pipeline. *)

PReturned == ppc = "returned"

\* A run of the pipeline: a call of fetchBacklogTasks.
IsRun == entry = "fetchBacklogTasks"

\* A run has returned after both its project fetch and its issue fetch
\* succeeded.
RunFetchedAll == IsRun /\ PReturned /\ projectMap.defined /\ issues.defined

\* The ids of the projects of the project map.
MappedIds == {p.id : p \in Range(projectMap.value)}

\* The requests to endpoint in the log.
RequestsTo(endpoint) == SelectSeq(plog, LAMBDA r : r.endpoint = endpoint)

\* C14: when the project fetch and the issue fetch succeed, fetchBacklogTasks
\* succeeds with one Task per issue, in the order of the issues, and the
\* project key of each Task is the key of the fetched project whose id is the
\* project id of its issue.
C14_TasksInIssueOrder ==
    RunFetchedAll =>
        /\ presult.ok
        /\ Len(presult.value) = Len(issues.value)
        /\ \A i \in 1..Len(issues.value) :
              /\ presult.value[i].id = issues.value[i].id
              /\ \A p \in Range(projectMap.value) :
                    p.id = issues.value[i].projectId => presult.value[i].projectKey = p.projectKey

\* C14 witness: two issues of two fetched projects, in the order 102, 101,
\* became two Tasks with the keys TEST2 and TEST1.
C14_Witness ==
    /\ RunFetchedAll
    /\ issues.value = <<Issue102, Issue101>>
    /\ MappedIds = {1, 2}
    /\ presult.value[1].projectKey = "TEST2"
    /\ presult.value[2].projectKey = "TEST1"

C16_ProjectFailureUnwrapped ==
    /\ [](IsRun /\ PReturned /\ ~projectMap.defined =>
            /\ ~presult.ok
            /\ Len(plog) <= 1
            /\ requests = <<>>)
    /\ [][\A resp \in ListResponses(ProjectLists) :
            (PProjects(resp) /\ IsRun /\ resp.kind # "ok") =>
                /\ presult' = Err(fetchProjects(resp).error)
                /\ ppc' = "returned"
                /\ plog' = plog
                /\ requests' = requests]_vars

\* C16 witness: a run returned the message of the failed project-list request
\* after that one request.
C16_Witness ==
    /\ IsRun /\ PReturned
    /\ plog = <<Req("projects", NoParams)>>
    /\ requests = <<>>
    /\ presult = fetchProjects([kind |-> "http", body |-> <<>>])

\* C17: a run ends either in a success with the Task of every issue fetched
\* or in a failure with one error and no Task; when the issue fetch fails the
\* run fails with the error of the issue fetch.
C17_AllOrNothing ==
    /\ [](IsRun /\ PReturned =>
            \/ /\ presult.ok
               /\ presult.error = ""
               /\ issues.defined
               /\ Len(presult.value) = Len(issues.value)
               /\ \A i \in 1..Len(issues.value) : presult.value[i].id = issues.value[i].id
            \/ /\ ~presult.ok
               /\ presult.error # ""
               /\ presult.value = <<>>
               /\ ~issues.defined)
    /\ [][\A resp \in ListResponses(IssueLists) :
            (PIssues(resp) /\ IsRun /\ resp.kind # "ok") =>
                /\ ~presult'.ok
                /\ presult'.error = fetchIssues(resp).error
                /\ presult'.value = <<>>]_vars

\* C17 witness: a run failed with the message of the failed issue-list
\* request, after its project fetch had succeeded.
C17_Witness ==
    /\ IsRun /\ PReturned
    /\ projectMap.defined
    /\ Len(RequestsTo("issues")) = 1
    /\ ~presult.ok
    /\ presult.error = "fetch failed"

\* The space URL or the API key is unset or empty.
C18_ConfigMissing ==
    \/ env.BACKLOG_SPACE_URL \in {Unset, Text("")}
    \/ env.BACKLOG_API_KEY \in {Unset, Text("")}

\* C18: when the space URL or the API key is unset or empty, each of
\* fetchIssues, fetchProjects, fetchProjectStatuses, fetchUsers and
\* fetchBacklogTasks returns a failure with the configuration-error message
\* and no HTTP request is issued.
C18_ConfigErrorNoRequest ==
    C18_ConfigMissing =>
        /\ plog = <<>>
        /\ requests = <<>>
        /\ ppc \in {"idle", "returned"}
        /\ PReturned => presult = Err(ConfigErrorMessage)

\* C18 witness: fetchBacklogTasks returned the configuration error where the
\* space URL is set and the API key is the empty text.
C18_Witness ==
    /\ PReturned
    /\ entry = "fetchBacklogTasks"
    /\ env.BACKLOG_SPACE_URL.text # ""
    /\ env.BACKLOG_API_KEY = Text("")
    /\ env.PROJECT_KEYS.set /\ env.MEMBER_KEYS.set
    /\ presult = Err(ConfigErrorMessage)

\* The projects of a project list whose key is one of keys.
C19_Matching(body, keys) == {p \in Range(body) : p.projectKey \in Range(keys)}

\* C19: with project keys configured, when no fetched project has one of
\* them the issue fetch fails with the scoping error that names the
\* configured keys, and neither a status-list request nor the issue-list
\* request is issued; when some project has, the issue-list request carries
\* the project-id filter of exactly the projects that have.
C19_ProjectScope ==
    /\ [][\A resp \in ListResponses(ProjectLists) :
            (PScopeProjects(resp) /\ resp.kind = "ok") =>
                LET keys == SplitOrEmpty(env.PROJECT_KEYS)
                IN  IF C19_Matching(resp.body, keys) = {}
                    THEN /\ ppc' = "returned"
                         /\ presult' = Err("U+6307U+5B9AU+3055U+308CU+305FU+30D7U+30EDU+30B8U+30A7U+30AFU+30C8U+304CU+898BU+3064U+304BU+308AU+307EU+305BU+3093: " \o Join(keys))
                         /\ plog' = plog
                         /\ requests' = <<>>
                    ELSE /\ ppc' # "returned"
                         /\ Range(params'.projectId) = {ToString(p.id) : p \in C19_Matching(resp.body, keys)}
                         /\ Len(params'.projectId) = Cardinality(C19_Matching(resp.body, keys))]_vars
    /\ [](\A i \in 1..Len(plog) :
            plog[i].endpoint = "issues" =>
                /\ plog[i].query.projectId = params.projectId
                /\ (Len(SplitOrEmpty(env.PROJECT_KEYS)) > 0) => Len(params.projectId) > 0)
    /\ []((PReturned /\ Len(SplitOrEmpty(env.PROJECT_KEYS)) > 0 /\ entry \in {"fetchIssues", "fetchBacklogTasks"}
            /\ params.projectId = <<>>) =>
                (~presult.ok /\ requests = <<>> /\ Len(RequestsTo("issues")) = 0))

\* With the keys TEST1 and NOPE configured a run issued its issue-list
\* request with the project-id filter 1 alone.
C19_SomeMatch ==
    /\ IsRun /\ PReturned
    /\ env.PROJECT_KEYS = Fields(<<"TEST1", "NOPE">>)
    /\ Len(RequestsTo("issues")) = 1
    /\ RequestsTo("issues")[1].query.projectId = <<"1">>
    /\ projectMap.value = <<TEST1, TEST2>>

\* C19 witness: with the key NOPE configured fetchIssues returned the scoping
\* error without a status-list or an issue-list request.
C19_Witness ==
    /\ entry = "fetchIssues" /\ PReturned
    /\ env.PROJECT_KEYS = Fields(<<"NOPE">>)
    /\ plog = <<Req("projects", NoParams)>>
    /\ requests = <<>>

\* C20: with member keys configured, the issue-list request carries one
\* assignee-id filter per configured member key, the key unchanged, and no
\* user-list request is issued.
C20_MemberKeysPassedThrough ==
    (entry \in {"fetchIssues", "fetchBacklogTasks"} /\ Len(SplitOrEmpty(env.MEMBER_KEYS)) > 0) =>
        /\ Len(RequestsTo("users")) = 0
        /\ \A i \in 1..Len(plog) :
              plog[i].endpoint = "issues" => plog[i].query.assigneeId = SplitOrEmpty(env.MEMBER_KEYS)

\* The run matched configured project keys: the filters hold a project id.
C21_Scoped == params.projectId # <<>>

\* C21: whenever project keys are configured and matched, the issue-list
\* request carries a status-id filter that consists of exactly the active
\* status ids the resolver returned, for every outcome of the status fetches,
\* and is never sent without a status-id filter.
C21_StatusFilter ==
    \A i \in 1..Len(plog) :
        (plog[i].endpoint = "issues" /\ C21_Scoped) =>
            /\ plog[i].query.statusId = ToStrings(rresult.value)
            /\ Len(plog[i].query.statusId) >= 1

\* The parts of C21 that do not depend on the resolver finding an active
\* status: the filter is exactly the ids the resolver returned.
C21_FilterIsResolverResult ==
    \A i \in 1..Len(plog) :
        (plog[i].endpoint = "issues" /\ C21_Scoped) =>
            plog[i].query.statusId = ToStrings(rresult.value)

\* The number of status requests, and the number of all requests, issued.
C25_Calls == Len(plog) + Len(requests)

\* C25: provided every request issued eventually settles, every run of
\* fetchBacklogTasks eventually returns, after at most four list requests and
\* one status request per matched project; no endpoint is requested again
\* after its request failed, and while the run waits, the request it waits
\* for has been issued.
C25_RunTerminates ==
    /\ (IsRun /\ ppc # "idle") ~> PReturned
    /\ [](/\ Len(RequestsTo("projects")) <= 2
          /\ Len(RequestsTo("users")) <= 1
          /\ Len(RequestsTo("issues")) <= 1
          /\ Len(plog) <= 4
          /\ Len(requests) <= Len(projectIds)
          /\ \A i, j \in 1..Len(requests) : requests[i] = requests[j] => i = j)
    /\ [](/\ ppc \in {"projects", "scopeProjects"} => plog[Len(plog)].endpoint = "projects"
          /\ ppc = "scopeUsers" => plog[Len(plog)].endpoint = "users"
          /\ ppc = "issues" => plog[Len(plog)].endpoint = "issues"
          /\ (ppc = "scopeStatuses" /\ rpc = "awaiting") =>
                /\ requests = projectIds
                /\ \A i \in 1..Len(fetches) : fetches[i].state \in {"pending", "settled"})
    /\ [][(ppc' = "returned" /\ ppc # "returned") => (plog' = plog /\ requests' = requests)]_vars

\* C25 witness: a run returned its Tasks after six requests, of which one
\* status request and the user-list request could have failed.
C25_Witness ==
    /\ IsRun /\ PReturned
    /\ presult.ok
    /\ C25_Calls = 6
    /\ \E i \in 1..Len(fetches) : fetches[i].resp.kind = "throw"

\* C26: within one run of fetchBacklogTasks the project list is requested
\* exactly once: at most once while the run is under way and once when it
\* has fetched its issues.
C26_ProjectsRequestedOnce ==
    IsRun =>
        /\ Len(RequestsTo("projects")) <= 1
        /\ (PReturned /\ issues.defined) => Len(RequestsTo("projects")) = 1

\* The project-key setting is unset or empty.
C27_NoProjectKeys == env.PROJECT_KEYS \in {UnsetList, Fields(<<"">>)}

\* The member-key setting is unset or empty.
C27_NoMemberKeys == env.MEMBER_KEYS \in {UnsetList, Fields(<<"">>)}

\* C27: with the project-key setting unset or empty, fetchIssues and
\* fetchBacklogTasks do no project scoping: no scoping error, and the
\* issue-list request has neither project-id nor status-id filters; with the
\* member-key setting unset or empty there is no assignee-id filter and no
\* user-list request.
C27_ScopingOptional ==
    (entry \in {"fetchIssues", "fetchBacklogTasks"}) =>
        /\ C27_NoProjectKeys =>
              /\ ppc # "scopeProjects"
              /\ PReturned => presult # ScopingError(SplitOrEmpty(env.PROJECT_KEYS))
              /\ \A i \in 1..Len(plog) :
                    plog[i].endpoint = "issues" =>
                        (plog[i].query.projectId = <<>> /\ plog[i].query.statusId = <<>>)
        /\ C27_NoMemberKeys =>
              /\ Len(RequestsTo("users")) = 0
              /\ \A i \in 1..Len(plog) :
                    plog[i].endpoint = "issues" => plog[i].query.assigneeId = <<>>

\* C28: whenever member keys are configured and the issue-list request is
\* issued, the request carries at least one assignee-id filter.
C28_MemberScopeKept ==
    (entry \in {"fetchIssues", "fetchBacklogTasks"} /\ Len(SplitOrEmpty(env.MEMBER_KEYS)) > 0) =>
        \A i \in 1..Len(plog) :
            plog[i].endpoint = "issues" => Len(plog[i].query.assigneeId) >= 1

-----------------------------------------------------------------------------
(* Properties of the dashboard hooks. *)

\* C22, the part that holds: a fetch that starts sets loading; a request that
\* settles clears it, and leaves the returned list and no error after an OK
\* response, and otherwise the tasks as they were and the message of the
\* failure.
C22_StartAndSettle ==
    /\ [][issued' # issued => loading']_vars
    /\ [][(issued' = issued /\ inflight' # inflight) =>
            /\ ~loading'
            /\ \E resp \in TaskResponses :
                  IF resp.kind = "ok"
                  THEN tasks' = resp.body /\ error' = Absent
                  ELSE /\ tasks' = tasks
                       /\ error' \in { Some("APIU+63A5U+7D9AU+30A8U+30E9U+30FC"),
                                       Some("U+30BFU+30B9U+30AFU+53D6U+5F97U+306BU+5931U+6557U+3057U+307EU+3057U+305F"), Some("Network Error"),
                                       Some("Unexpected token < in JSON at position 0") }]_vars

\* C22: loading is true from the start of a fetch until its /api/tasks
\* request settles and false in every state after it settled: loading is true
\* while a request is under way, and false once every request has settled.
C22_LoadingLifecycle ==
    /\ inflight # {} => loading
    /\ (issued > 0 /\ inflight = {}) => ~loading

\* The latest request is still under way.
C29_LatestPending == \E r \in inflight : r.seq = issued

\* C29: useTasks shows the result of the latest request: loading is true while
\* the most recently issued request is pending, and once every request has
\* settled tasks/error are what the response of the most recently issued
\* request gives.
C29_LatestWins ==
    /\ C29_LatestPending => loading
    /\ (issued > 0 /\ inflight = {}) =>
          /\ settled.defined
          /\ IF settled.value.kind = "ok"
             THEN tasks = settled.value.body /\ error = Absent
             ELSE error = Some(TaskErrorMessage(settled.value))

\* The indexes of the loaded tasks that satisfy the three selected filters.
C23_Selected ==
    { i \in 1..Len(taskList) :
        /\ statusFilter = "overdue" => taskList[i].isOverdue
        /\ statusFilter = "due-tomorrow" => taskList[i].isDueTomorrow
        /\ assigneeFilter # "all" => PersonName(taskList[i], filterMode) = Some(assigneeFilter)
        /\ projectFilter # "all" => taskList[i].projectKey = projectFilter }

\* C23: filteredTasks is the order-preserving sub-list of the loaded tasks
\* that satisfy the selected status, assignee and project filters; with 'all'
\* selected three times it is the full list; and the header counts are
\* computed over all loaded tasks.
C23_FilteredTasks ==
    /\ Len(view.filteredTasks) = Cardinality(C23_Selected)
    /\ \E f \in [1..Len(view.filteredTasks) -> C23_Selected] :
          /\ \A i, j \in 1..Len(view.filteredTasks) : i < j => f[i] < f[j]
          /\ \A i \in 1..Len(view.filteredTasks) : view.filteredTasks[i] = taskList[f[i]]
    /\ (statusFilter = "all" /\ assigneeFilter = "all" /\ projectFilter = "all") =>
          view.filteredTasks = taskList
    /\ view.stats.totalTasks = Len(taskList)
    /\ view.stats.overdueTasks = Cardinality({i \in 1..Len(taskList) : taskList[i].isOverdue})
    /\ view.stats.dueTomorrowTasks =
          Cardinality({i \in 1..Len(taskList) : taskList[i].isDueTomorrow})

\* C23 witness: the three filters are selected together and show one of four
\* loaded tasks, of which two are overdue.
C23_Witness ==
    /\ statusFilter = "overdue"
    /\ assigneeFilter = "Tanaka"
    /\ projectFilter = "TEST2"
    /\ filterMode = "assignee"
    /\ Len(taskList) = 4
    /\ view.filteredTasks = <<MockTasks[4]>>
    /\ view.stats.overdueTasks = 2

\* C24: every shown task has exactly one display state, by the priority
\* overdue ('<overdueDays> days late' badge), due tomorrow, completed, within
\* its deadline, no deadline.
C24_DisplayState ==
    \A i \in 1..Len(view.filteredTasks) :
        LET task == view.filteredTasks[i]
            card == view.cards[i]
        IN  /\ Len(view.cards) = Len(view.filteredTasks)
            /\ card.state \in {"overdue", "dueTomorrow", "completed", "withinDeadline", "noDeadline"}
            /\ task.isOverdue =>
                  card = [state |-> "overdue",
                          badgeText |-> ToString(task.overdueDays) \o "U+65E5U+9045U+5EF6"]
            /\ (~task.isOverdue /\ task.isDueTomorrow) =>
                  card = [state |-> "dueTomorrow", badgeText |-> "U+660EU+65E5U+671FU+9650"]
            /\ (~task.isOverdue /\ ~task.isDueTomorrow /\ task.status = Completed) =>
                  card = [state |-> "completed", badgeText |-> "U+5B8CU+4E86"]
            /\ (~task.isOverdue /\ ~task.isDueTomorrow /\ task.status # Completed
                    /\ task.dueDate.defined) =>
                  card = [state |-> "withinDeadline", badgeText |-> "U+671FU+9650U+5185"]
            /\ (~task.isOverdue /\ ~task.isDueTomorrow /\ task.status # Completed
                    /\ ~task.dueDate.defined) =>
                  card = [state |-> "noDeadline", badgeText |-> "U+671FU+9650U+672AU+8A2DU+5B9A"]

\* C24 witness: a completed task that is overdue is shown as overdue, next to
\* a task without due date and a task within its deadline.
C24_Witness ==
    /\ Len(view.cards) = 3
    /\ \E i \in 1..Len(view.cards) :
          /\ view.filteredTasks[i].status = Completed
          /\ view.filteredTasks[i].isOverdue
          /\ view.cards[i] = [state |-> "overdue", badgeText |-> "1U+65E5U+9045U+5EF6"]
    /\ \E i \in 1..Len(view.cards) : view.cards[i].state = "noDeadline"
    /\ \E i \in 1..Len(view.cards) : view.cards[i].state = "withinDeadline"

\* C30: the selected assignee/creator filter is one of availableAssignees and
\* the selected project filter is one of availableProjects.
C30_SelectionAvailable ==
    /\ assigneeFilter \in Range(view.availableAssignees)
    /\ projectFilter \in Range(view.availableProjects)

\* The lists of C30 are 'all' followed by the sorted distinct names and keys
\* of the current tasks for the current view mode.
C30_AvailableLists ==
    /\ view.availableAssignees = availableAssignees(taskList, filterMode)
    /\ view.availableProjects = availableProjects(taskList)
    /\ \A i, j \in 2..Len(view.availableAssignees) :
          i < j => view.availableAssignees[i] # view.availableAssignees[j]

====
